---------------------------- MODULE Spec2Model ----------------------------
(***************************************************************************)
(* A model of coordinates.py: the Rectangle geometry (overlap, overflow),  *)
(* the Postcard constructor with its random draw, the CSV record store     *)
(* (as_string, from_string, parse_busy, write_busy), test_new and main.    *)
(*                                                                         *)
(* Text is modelled as a sequence of one-character strings, so formatting  *)
(* and parsing are computed and not assumed to be inverse to each other.   *)
(***************************************************************************)
EXTENDS Integers, Sequences, FiniteSets, TLC

(***************************************************************************)
(* Bounds of the model.                                                    *)
(***************************************************************************)
\* Number of invocations of main in one behaviour.
MaxRuns == 2
\* Rectangles of the geometry specification: origins in 0..MaxCoord.
MaxCoord == 3
\* Rectangles of the geometry specification: sizes in 0..MaxSize.
MaxSize == 3
\* Record sequences of the store specification: at most MaxRecords records.
MaxRecords == 2

(***************************************************************************)
(* Program constants.                                                      *)
(***************************************************************************)
WIDTH == 146
HEIGHT == 106
DOOR_WIDTH == 800
DOOR_HEIGHT == 2000

\* Python's None.
None == [none |-> TRUE]

\* class Orientation(Enum): the member, its value and its name.
UNDEFINED == [value |-> 0, name |-> <<"U","N","D","E","F","I","N","E","D">>]
LANDSCAPE == [value |-> 1, name |-> <<"L","A","N","D","S","C","A","P","E">>]
PORTRAIT == [value |-> 2, name |-> <<"P","O","R","T","R","A","I","T">>]
Orientation == {UNDEFINED, LANDSCAPE, PORTRAIT}

(***************************************************************************)
(* class Rectangle                                                         *)
(***************************************************************************)
Rectangle(xxx, zzz, width, height) ==
    [xxx |-> xxx, zzz |-> zzz, width |-> width, height |-> height]

\* A plausible slip: non-strict comparisons, so that touching edges collide.
overlap_inclusive(self, other) ==
    LET x_11 == self.xxx >= other.xxx
        x_12 == self.xxx <= other.xxx + other.width
        x_21 == self.xxx + self.width >= other.xxx
        x_22 == self.xxx + self.width <= other.xxx + other.width
        x_test == (x_11 /\ x_12) \/ (x_21 /\ x_22)
        z_11 == self.zzz >= other.zzz
        z_12 == self.zzz <= other.zzz + other.height
        z_21 == self.zzz + self.height >= other.zzz
        z_22 == self.zzz + self.height <= other.zzz + other.height
        z_test == (z_11 /\ z_12) \/ (z_21 /\ z_22)
    IN  x_test /\ z_test

\* Rectangle.overlap
overlap(self, other) ==
    LET x_11 == self.xxx > other.xxx
        x_12 == self.xxx < other.xxx + other.width
        x_21 == self.xxx + self.width > other.xxx
        x_22 == self.xxx + self.width < other.xxx + other.width
        x_test == (x_11 /\ x_12) \/ (x_21 /\ x_22)
        z_11 == self.zzz > other.zzz
        z_12 == self.zzz < other.zzz + other.height
        z_21 == self.zzz + self.height > other.zzz
        z_22 == self.zzz + self.height < other.zzz + other.height
        z_test == (z_11 /\ z_12) \/ (z_21 /\ z_22)
    IN  x_test /\ z_test

\* Rectangle.overflow
overflow(self, other) ==
    LET x_test == \/ self.xxx < other.xxx
                  \/ self.xxx + self.width > other.xxx + other.width
        z_test == \/ self.zzz < other.zzz
                  \/ self.zzz + self.height > other.zzz + other.height
    IN  x_test \/ z_test

THE_DOOR == Rectangle(0, 0, DOOR_WIDTH, DOOR_HEIGHT)

(***************************************************************************)
(* Text: str(int), int(str), str.split(','), str.splitlines()              *)
(***************************************************************************)
Digits == <<"0","1","2","3","4","5","6","7","8","9">>

DigitValue(c) == (CHOOSE i \in 1..10 : Digits[i] = c) - 1

IsDigit(c) == \E i \in 1..10 : Digits[i] = c

RECURSIVE format_nat(_)
\* The decimal digits of a natural number, as an f-string renders an int.
format_nat(n) ==
    IF n < 10 THEN <<Digits[n + 1]>>
    ELSE format_nat(n \div 10) \o <<Digits[(n % 10) + 1]>>

\* f'{n}' for an int n.
format_int(n) == IF n < 0 THEN <<"-">> \o format_nat(-n) ELSE format_nat(n)

RECURSIVE digits_value(_)
digits_value(s) ==
    IF s = <<>> THEN 0
    ELSE 10 * digits_value(SubSeq(s, 1, Len(s) - 1)) + DigitValue(s[Len(s)])

AllDigits(s) == s # <<>> /\ \A i \in 1..Len(s) : IsDigit(s[i])

\* Whether int(s) returns (a sign and decimal digits); otherwise ValueError.
int_ok(s) ==
    IF s # <<>> /\ s[1] = "-" THEN AllDigits(Tail(s)) ELSE AllDigits(s)

\* int(s), where int_ok(s).
int_of(s) ==
    IF s[1] = "-" THEN 0 - digits_value(Tail(s)) ELSE digits_value(s)

RECURSIVE split(_, _)
\* s.split(sep) for a one-character sep: always at least one field.
split(s, sep) ==
    IF \A i \in 1..Len(s) : s[i] # sep THEN <<s>>
    ELSE LET k == CHOOSE i \in 1..Len(s) :
                      s[i] = sep /\ \A j \in 1..(i - 1) : s[j] # sep
         IN  <<SubSeq(s, 1, k - 1)>> \o split(SubSeq(s, k + 1, Len(s)), sep)

RECURSIVE splitlines(_)
\* s.splitlines(): a final line break opens no further line.
splitlines(s) ==
    IF s = <<>> THEN <<>>
    ELSE IF \A i \in 1..Len(s) : s[i] # "\n" THEN <<s>>
    ELSE LET k == CHOOSE i \in 1..Len(s) :
                      s[i] = "\n" /\ \A j \in 1..(i - 1) : s[j] # "\n"
         IN  <<SubSeq(s, 1, k - 1)>> \o splitlines(SubSeq(s, k + 1, Len(s)))

RECURSIVE join(_, _)
\* sep.join(parts)
join(sep, parts) ==
    IF parts = <<>> THEN <<>>
    ELSE IF Len(parts) = 1 THEN parts[1]
    ELSE parts[1] \o sep \o join(sep, Tail(parts))

(***************************************************************************)
(* random.randint                                                          *)
(***************************************************************************)
\* Offsets from the lower end that a draw may take: the draw is one of the
\* ends of the range or lies at one of these offsets, so that equal, nested,
\* partly covering and far apart placements all occur.
DrawOffsets == {0, (WIDTH - HEIGHT) \div 2}

\* The values randint(a, b) may return; none when the range is empty, where
\* randint raises ValueError.
randint(a, b) ==
    IF a > b THEN {}
    ELSE {v \in {b} \cup {a + o : o \in DrawOffsets} : v <= b}

(***************************************************************************)
(* class Postcard(Rectangle)                                               *)
(***************************************************************************)
\* The width and height Postcard.__init__ derives from the orientation.
PostcardSize(orientation) ==
    IF orientation = LANDSCAPE THEN [width |-> WIDTH, height |-> HEIGHT]
    ELSE IF orientation = PORTRAIT THEN [width |-> HEIGHT, height |-> WIDTH]
    ELSE [width |-> WIDTH, height |-> WIDTH]

\* Postcard(xxx, zzz, orientation) with both coordinates given.
Postcard(xxx, zzz, orientation) ==
    [xxx |-> xxx, zzz |-> zzz,
     width |-> PostcardSize(orientation).width,
     height |-> PostcardSize(orientation).height,
     orientation |-> IF orientation = None THEN UNDEFINED ELSE orientation]

\* A plausible slip: the draw range forgets to subtract the card's size.
DrawnPostcardsNoMargin(orientation, the_door) ==
    {Postcard(x, z, orientation) :
        x \in randint(0, the_door.width),
        z \in randint(0, the_door.height)}

\* A plausible slip: an empty draw range is clamped to its lower end.
DrawnPostcardsClamped(orientation, the_door) ==
    LET w == the_door.width - PostcardSize(orientation).width
        h == the_door.height - PostcardSize(orientation).height
    IN  {Postcard(x, z, orientation) :
            x \in randint(0, IF w < 0 THEN 0 ELSE w),
            z \in randint(0, IF h < 0 THEN 0 ELSE h)}

\* Postcard(orientation=orientation): every postcard the constructor may
\* return when no coordinates are given. The set is empty when one of the two
\* randint calls raises ValueError.
DrawnPostcards(orientation, the_door) ==
    {Postcard(x, z, orientation) :
        x \in randint(0, the_door.width - PostcardSize(orientation).width),
        z \in randint(0, the_door.height - PostcardSize(orientation).height)}

\* Postcard.as_string
as_string(self) ==
    format_int(self.xxx) \o <<",">> \o format_int(self.zzz) \o <<",">>
        \o self.orientation.name

\* The result of a call that may raise: error is "" when it returned.
Returned(v) == [error |-> "", value |-> v]
Raised(e) == [error |-> e, value |-> <<>>]

\* Postcard.from_string
from_string(args) ==
    LET fields == split(args, ",")
    IN  IF Len(fields) # 3 THEN Raised("ValueError")
        ELSE IF ~int_ok(fields[1]) \/ ~int_ok(fields[2])
        THEN Raised("ValueError")
        ELSE IF \A o \in Orientation : o.name # fields[3]
        THEN Raised("KeyError")
        ELSE Returned(Postcard(int_of(fields[1]), int_of(fields[2]),
                               CHOOSE o \in Orientation : o.name = fields[3]))

(***************************************************************************)
(* The record store                                                        *)
(***************************************************************************)
startswith_hash(line) == line # <<>> /\ line[1] = "#"

RECURSIVE parse_lines(_)
\* The loop of parse_busy over the lines of the file.
parse_lines(contents) ==
    IF contents = <<>> THEN Returned(<<>>)
    ELSE IF startswith_hash(contents[1]) THEN parse_lines(Tail(contents))
    ELSE LET first == from_string(contents[1])
             rest == parse_lines(Tail(contents))
         IN  IF first.error # "" THEN Raised(first.error)
             ELSE IF rest.error # "" THEN Raised(rest.error)
             ELSE Returned(<<first.value>> \o rest.value)

\* parse_busy, given the text of BUSY_FILE
parse_busy(text) == parse_lines(splitlines(text))

HeaderLine ==
    <<"#"," ","x",",","z",",","o","r","i","e","n","t","a","t","i","o","n">>

\* A plausible slip: only the newest placement is written.
write_busy_newest(postcards) ==
    HeaderLine \o <<"\n">>
        \o (IF postcards = <<>> THEN <<>>
            ELSE as_string(postcards[Len(postcards)]))
        \o <<"\n">>

\* write_busy: the text written to BUSY_FILE
write_busy(postcards) ==
    HeaderLine \o <<"\n">>
        \o join(<<"\n">>, [i \in 1..Len(postcards) |-> as_string(postcards[i])])
        \o <<"\n">>

\* A plausible slip: the scan of the existing postcards is left out.
test_new_overflow_only(new_postcard, postcards, the_door) ==
    ~overflow(new_postcard, the_door)

\* test_new
test_new(new_postcard, postcards, the_door) ==
    IF overflow(new_postcard, the_door) THEN FALSE
    ELSE \A i \in 1..Len(postcards) : ~overlap(new_postcard, postcards[i])

(***************************************************************************)
(* State                                                                   *)
(***************************************************************************)
VARIABLES
    \* main and the module's globals
    file,               \* the text of BUSY_FILE
    door,               \* the module global THE_DOOR
    pc,                 \* where the current invocation of main stands
    dryrun,             \* args.dryrun
    orientation,        \* main's local orientation
    existing_postcards, \* main's local existing_postcards
    postcard,           \* main's local postcard
    error,              \* the exception that ended the invocation, or ""
    file_at_start,      \* history: the text of BUSY_FILE when main started
    rejected,           \* history: test_new has rejected a candidate
    runs,               \* history: the number of invocations so far
    \* Rectangle.overlap applied to two rectangles
    geom_pc, rect_a, rect_b, a_overlaps_b, b_overlaps_a, a_overlaps_a,
    \* write_busy, parse_busy, write_busy applied to a record sequence
    store_pc, store_records, store_file, store_first, store_loaded,
    store_error,
    \* Postcard(orientation=...) and test_new applied to what it returns
    sampler_pc, sampler_orientation, sampler_postcard, sampler_overflow,
    sampler_test

mainVars == <<file, door, pc, dryrun, orientation, existing_postcards,
              postcard, error, file_at_start, rejected, runs>>
geomVars == <<geom_pc, rect_a, rect_b, a_overlaps_b, b_overlaps_a,
              a_overlaps_a>>
storeVars == <<store_pc, store_records, store_file, store_first,
               store_loaded, store_error>>
samplerVars == <<sampler_pc, sampler_orientation, sampler_postcard,
                 sampler_overflow, sampler_test>>
vars == <<mainVars, geomVars, storeVars, samplerVars>>

(***************************************************************************)
(* main                                                                    *)
(***************************************************************************)
\* A BUSY_FILE that holds the header comment and no placement yet.
EmptyBusyFile == HeaderLine \o <<"\n">>

\* Doors for which some or all of the postcard sizes do not fit.
Doors ==
    {THE_DOOR,
     Rectangle(0, 0, HEIGHT + 14, DOOR_HEIGHT),
     Rectangle(0, 0, DOOR_WIDTH, HEIGHT + 14),
     Rectangle(0, 0, HEIGHT - 6, HEIGHT - 6)}

\* The state before main is first invoked, with THE_DOOR set to the_door.
MainStart(the_door) ==
    /\ file = EmptyBusyFile
    /\ door = the_door
    /\ pc = "start"
    /\ dryrun = FALSE
    /\ orientation = None
    /\ existing_postcards = <<>>
    /\ postcard = None
    /\ error = ""
    /\ file_at_start = EmptyBusyFile
    /\ rejected = FALSE
    /\ runs = 0

MainInit == MainStart(THE_DOOR)

\* No invocation of main: the state of the specifications of single functions.
MainIdle == MainInit

\* The process starts and parses its arguments (lines 287-334).
ParseArgs ==
    /\ pc \in {"start", "exit", "raised"}
    /\ runs < MaxRuns
    /\ \E landscape \in BOOLEAN, portrait \in BOOLEAN, d \in BOOLEAN :
          /\ dryrun' = d
          /\ IF ~landscape /\ ~portrait
             THEN /\ pc' = "raised"
                  /\ error' = "ValueError"
                  /\ orientation' = None
             ELSE /\ pc' = "parse_busy"
                  /\ error' = ""
                  /\ orientation' = IF portrait THEN PORTRAIT ELSE LANDSCAPE
    /\ runs' = runs + 1
    /\ file_at_start' = file
    /\ rejected' = FALSE
    /\ existing_postcards' = <<>>
    /\ postcard' = None
    /\ UNCHANGED <<file, door>>
    /\ UNCHANGED <<geomVars, storeVars, samplerVars>>

\* existing_postcards = parse_busy() (line 336)
ParseBusy ==
    /\ pc = "parse_busy"
    /\ LET r == parse_busy(file)
       IN  IF r.error # ""
           THEN /\ pc' = "raised"
                /\ error' = r.error
                /\ UNCHANGED existing_postcards
           ELSE /\ pc' = "new_postcard"
                /\ existing_postcards' = r.value
                /\ UNCHANGED error
    /\ UNCHANGED <<file, door, dryrun, orientation, postcard, file_at_start,
                   rejected, runs>>
    /\ UNCHANGED <<geomVars, storeVars, samplerVars>>

\* postcard = Postcard(orientation=orientation) (line 338)
NewPostcard ==
    /\ pc = "new_postcard"
    /\ IF DrawnPostcards(orientation, door) = {}
       THEN /\ pc' = "raised"
            /\ error' = "ValueError"
            /\ UNCHANGED postcard
       ELSE /\ pc' = "loop"
            /\ postcard' \in DrawnPostcards(orientation, door)
            /\ UNCHANGED error
    /\ UNCHANGED <<file, door, dryrun, orientation, existing_postcards,
                   file_at_start, rejected, runs>>
    /\ UNCHANGED <<geomVars, storeVars, samplerVars>>

\* One turn of the loop: test_new rejects, a new candidate is drawn
\* (lines 339-340).
Retry ==
    /\ pc = "loop"
    /\ ~test_new(postcard, existing_postcards, door)
    /\ postcard' \in DrawnPostcards(orientation, door)
    /\ rejected' = TRUE
    /\ UNCHANGED <<file, door, pc, dryrun, orientation, existing_postcards,
                   error, file_at_start, runs>>
    /\ UNCHANGED <<geomVars, storeVars, samplerVars>>

\* A turn of the loop whose new candidate test_new will accept.
RetryAdmissible ==
    /\ Retry
    /\ test_new(postcard', existing_postcards, door)

\* test_new accepts: the loop ends and the candidate is appended
\* (lines 339, 342).
Accept ==
    /\ pc = "loop"
    /\ test_new(postcard, existing_postcards, door)
    /\ existing_postcards' = Append(existing_postcards, postcard)
    /\ pc' = "write_busy"
    /\ UNCHANGED <<file, door, dryrun, orientation, postcard, error,
                   file_at_start, rejected, runs>>
    /\ UNCHANGED <<geomVars, storeVars, samplerVars>>

\* A plausible slip: the dry-run flag is not consulted.
WriteBusyAlways ==
    /\ pc = "write_busy"
    /\ file' = write_busy(existing_postcards)
    /\ pc' = "print"
    /\ UNCHANGED <<door, dryrun, orientation, existing_postcards, postcard,
                   error, file_at_start, rejected, runs>>
    /\ UNCHANGED <<geomVars, storeVars, samplerVars>>

\* if not args.dryrun: write_busy(existing_postcards) (lines 344-345)
WriteBusy ==
    /\ pc = "write_busy"
    /\ file' = IF dryrun THEN file ELSE write_busy(existing_postcards)
    /\ pc' = "print"
    /\ UNCHANGED <<door, dryrun, orientation, existing_postcards, postcard,
                   error, file_at_start, rejected, runs>>
    /\ UNCHANGED <<geomVars, storeVars, samplerVars>>

\* print(... postcard.get_str_coordinates()) (line 347): the polar rendering
\* divides zzz by xxx.
PrintCoordinates ==
    /\ pc = "print"
    /\ \E coordinate_system \in {0, 1} :
          IF coordinate_system = 1 /\ postcard.xxx = 0
          THEN pc' = "raised" /\ error' = "ZeroDivisionError"
          ELSE pc' = "exit" /\ UNCHANGED error
    /\ UNCHANGED <<file, door, dryrun, orientation, existing_postcards,
                   postcard, file_at_start, rejected, runs>>
    /\ UNCHANGED <<geomVars, storeVars, samplerVars>>

MainNext ==
    \/ ParseArgs
    \/ ParseBusy
    \/ NewPostcard
    \/ Retry
    \/ Accept
    \/ WriteBusy
    \/ PrintCoordinates

(***************************************************************************)
(* Rectangle.overlap on two rectangles                                     *)
(***************************************************************************)
Rectangles ==
    {Rectangle(x, z, w, h) :
        x \in 0..MaxCoord, z \in 0..MaxCoord, w \in 0..MaxSize, h \in 0..MaxSize}

GeomIdle ==
    /\ geom_pc = "idle"
    /\ rect_a = Rectangle(0, 0, 0, 0)
    /\ rect_b = Rectangle(0, 0, 0, 0)
    /\ a_overlaps_b = FALSE
    /\ b_overlaps_a = FALSE
    /\ a_overlaps_a = FALSE

GeomInit ==
    /\ geom_pc = "given"
    /\ rect_a \in Rectangles
    /\ rect_b \in Rectangles
    /\ a_overlaps_b = FALSE
    /\ b_overlaps_a = FALSE
    /\ a_overlaps_a = FALSE

\* overlap called in both directions and on A itself.
TestOverlap ==
    /\ geom_pc = "given"
    /\ a_overlaps_b' = overlap(rect_a, rect_b)
    /\ b_overlaps_a' = overlap(rect_b, rect_a)
    /\ a_overlaps_a' = overlap(rect_a, rect_a)
    /\ geom_pc' = "tested"
    /\ UNCHANGED <<rect_a, rect_b>>
    /\ UNCHANGED <<mainVars, storeVars, samplerVars>>

GeomNext == TestOverlap

(***************************************************************************)
(* write_busy, parse_busy and write_busy again on a record sequence        *)
(***************************************************************************)
\* Origins of the records of the store specification.
StoreCoords == {0, 10, DOOR_WIDTH - WIDTH}

StorePostcards ==
    {Postcard(x, z, o) : x \in StoreCoords, z \in StoreCoords, o \in Orientation}

RECURSIVE SeqsUpTo(_, _)
\* The sequences over S of length at most n.
SeqsUpTo(S, n) ==
    IF n = 0 THEN {<<>>}
    ELSE LET shorter == SeqsUpTo(S, n - 1)
         IN  shorter \cup {Append(q, e) : q \in shorter, e \in S}

StoreIdle ==
    /\ store_pc = "idle"
    /\ store_records = <<>>
    /\ store_file = <<>>
    /\ store_first = <<>>
    /\ store_loaded = <<>>
    /\ store_error = ""

StoreInit ==
    /\ store_pc = "save"
    /\ store_records \in SeqsUpTo(StorePostcards, MaxRecords)
    /\ store_file = <<>>
    /\ store_first = <<>>
    /\ store_loaded = <<>>
    /\ store_error = ""

\* write_busy(S)
StoreSave ==
    /\ store_pc = "save"
    /\ store_file' = write_busy(store_records)
    /\ store_first' = write_busy(store_records)
    /\ store_pc' = "load"
    /\ UNCHANGED <<store_records, store_loaded, store_error>>
    /\ UNCHANGED <<mainVars, geomVars, samplerVars>>

\* parse_busy()
StoreLoad ==
    /\ store_pc = "load"
    /\ LET r == parse_busy(store_file)
       IN  IF r.error # ""
           THEN /\ store_pc' = "raised"
                /\ store_error' = r.error
                /\ UNCHANGED store_loaded
           ELSE /\ store_pc' = "save_again"
                /\ store_loaded' = r.value
                /\ UNCHANGED store_error
    /\ UNCHANGED <<store_records, store_file, store_first>>
    /\ UNCHANGED <<mainVars, geomVars, samplerVars>>

\* write_busy of what parse_busy returned
StoreSaveAgain ==
    /\ store_pc = "save_again"
    /\ store_file' = write_busy(store_loaded)
    /\ store_pc' = "saved_again"
    /\ UNCHANGED <<store_records, store_first, store_loaded, store_error>>
    /\ UNCHANGED <<mainVars, geomVars, samplerVars>>

StoreNext ==
    \/ StoreSave
    \/ StoreLoad
    \/ StoreSaveAgain

(***************************************************************************)
(* Postcard(orientation=...) and test_new with no postcard placed          *)
(***************************************************************************)
SamplerIdle ==
    /\ sampler_pc = "idle"
    /\ sampler_orientation = None
    /\ sampler_postcard = None
    /\ sampler_overflow = FALSE
    /\ sampler_test = FALSE

SamplerInit ==
    /\ sampler_pc = "new"
    /\ sampler_orientation \in Orientation \cup {None}
    /\ sampler_postcard = None
    /\ sampler_overflow = FALSE
    /\ sampler_test = FALSE

\* Postcard(orientation=orientation)
SamplerDraw ==
    /\ sampler_pc = "new"
    /\ IF DrawnPostcards(sampler_orientation, door) = {}
       THEN /\ sampler_pc' = "raised"
            /\ UNCHANGED sampler_postcard
       ELSE /\ sampler_pc' = "drawn"
            /\ sampler_postcard' \in DrawnPostcards(sampler_orientation, door)
    /\ UNCHANGED <<sampler_orientation, sampler_overflow, sampler_test>>
    /\ UNCHANGED <<mainVars, geomVars, storeVars>>

\* test_new(postcard, []) and the overflow test it starts with
SamplerTest ==
    /\ sampler_pc = "drawn"
    /\ sampler_overflow' = overflow(sampler_postcard, door)
    /\ sampler_test' = test_new(sampler_postcard, <<>>, door)
    /\ sampler_pc' = "tested"
    /\ UNCHANGED <<sampler_orientation, sampler_postcard>>
    /\ UNCHANGED <<mainVars, geomVars, storeVars>>

SamplerNext ==
    \/ SamplerDraw
    \/ SamplerTest

(***************************************************************************)
(* Specifications                                                          *)
(***************************************************************************)
Init == MainInit /\ GeomIdle /\ StoreIdle /\ SamplerIdle

Next == MainNext

\* Invocations of main, one after the other, on the door of the program.
Spec == Init /\ [][Next]_vars

\* The same with fair draws: the program keeps running, and a loop that keeps
\* drawing draws every admissible candidate sooner or later.
FairSpec ==
    /\ Spec
    /\ WF_vars(Accept)
    /\ WF_vars(RetryAdmissible)

DoorInit ==
    /\ \E d \in Doors : MainStart(d)
    /\ GeomIdle /\ StoreIdle /\ SamplerIdle

\* Invocations of main with THE_DOOR set to other sizes.
SpecDoor == DoorInit /\ [][Next]_vars

\* Rectangle.overlap on every pair of small rectangles.
InitGeom == MainIdle /\ GeomInit /\ StoreIdle /\ SamplerIdle

SpecGeom == InitGeom /\ [][GeomNext]_vars

\* The round trip of the record store on every short record sequence.
InitStore == MainIdle /\ GeomIdle /\ StoreInit /\ SamplerIdle

SpecStore == InitStore /\ [][StoreNext]_vars

\* The sampler alone, for every orientation and door.
InitSampler ==
    /\ \E d \in Doors : MainStart(d)
    /\ GeomIdle /\ StoreIdle /\ SamplerInit

SpecSampler == InitSampler /\ [][SamplerNext]_vars

(***************************************************************************)
(* Properties                                                              *)
(***************************************************************************)
\* The placements BUSY_FILE holds.
Placed == parse_busy(file).value

\* The placements BUSY_FILE held when the current invocation started.
PlacedAtStart == parse_busy(file_at_start).value

Max(a, b) == IF a > b THEN a ELSE b
Min(a, b) == IF a < b THEN a ELSE b

\* The two rectangles share a region of positive area.
PositiveAreaIntersection(A, B) ==
    /\ Max(A.xxx, B.xxx) < Min(A.xxx + A.width, B.xxx + B.width)
    /\ Max(A.zzz, B.zzz) < Min(A.zzz + A.height, B.zzz + B.height)

PositiveSize(A) == A.width > 0 /\ A.height > 0

\* C1: after every completed run of main, no two distinct placed postcards
\* overlap, in either direction of the test, and none overflows THE_DOOR.
C1_PlacedDisjointInsideDoor ==
    pc = "exit" =>
        /\ \A i \in 1..Len(Placed), j \in 1..Len(Placed) :
              i # j => ~overlap(Placed[i], Placed[j])
        /\ \A i \in 1..Len(Placed) : ~overflow(Placed[i], THE_DOOR)

\* C2: for rectangles of positive width and height, overlap(A, B) is true
\* exactly when A and B share a region of positive area.
C2_OverlapIffPositiveArea ==
    (geom_pc = "tested" /\ PositiveSize(rect_a) /\ PositiveSize(rect_b)) =>
        (a_overlaps_b <=> PositiveAreaIntersection(rect_a, rect_b))

\* C3: overlap is symmetric: overlap(A, B) equals overlap(B, A).
C3_OverlapSymmetric ==
    geom_pc = "tested" => (a_overlaps_b <=> b_overlaps_a)

\* C4: a rectangle of positive width and height overlaps itself.
C4_OverlapReflexive ==
    (geom_pc = "tested" /\ PositiveSize(rect_a)) => a_overlaps_a

\* A's upper edge on one axis is B's lower edge on that axis.
Touching(A, B) ==
    \/ A.xxx + A.width = B.xxx
    \/ A.zzz + A.height = B.zzz

\* C5: rectangles that touch along a boundary do not overlap, whichever of
\* the two the test is called on.
C5_TouchingDoNotOverlap ==
    (geom_pc = "tested" /\ Touching(rect_a, rect_b)) =>
        (~a_overlaps_b /\ ~b_overlaps_a)

\* The example of the specification, at a tenth of its size.
C5_Witness ==
    /\ geom_pc = "tested"
    /\ rect_a = Rectangle(0, 0, 1, 1)
    /\ rect_b = Rectangle(1, 0, 1, 1)
    /\ ~a_overlaps_b /\ ~b_overlaps_a

\* C6: every postcard drawn without coordinates, for each orientation, has
\* 0 <= x <= door width - width and 0 <= z <= door height - height (on the
\* 800 x 2000 door: 0 <= x <= 800 - width, 0 <= z <= 2000 - height, and
\* x <= 654, z <= 1894 for Landscape), so it does not overflow the door and
\* the overflow test of test_new does not reject it.
C6_DrawnInsideDoor ==
    sampler_pc \in {"drawn", "tested"} =>
        /\ 0 <= sampler_postcard.xxx
        /\ sampler_postcard.xxx <= door.width - sampler_postcard.width
        /\ 0 <= sampler_postcard.zzz
        /\ sampler_postcard.zzz <= door.height - sampler_postcard.height
        /\ door = THE_DOOR =>
              /\ sampler_postcard.xxx <= 800 - sampler_postcard.width
              /\ sampler_postcard.zzz <= 2000 - sampler_postcard.height
              /\ sampler_orientation = LANDSCAPE =>
                    /\ sampler_postcard.xxx <= 654
                    /\ sampler_postcard.zzz <= 1894
        /\ ~overflow(sampler_postcard, door)
        /\ sampler_pc = "tested" => (~sampler_overflow /\ sampler_test)

\* A Landscape postcard drawn at the far corner of its range and tested.
C6_Witness ==
    /\ sampler_pc = "tested"
    /\ door = THE_DOOR
    /\ sampler_orientation = LANDSCAPE
    /\ sampler_postcard.xxx = 654
    /\ sampler_postcard.zzz = 1894
    /\ sampler_test

\* C7: for every record sequence S, the empty one included, parse_busy
\* succeeds on what write_busy(S) wrote, and writing what it returned gives
\* the same text again.
C7_RoundTripStable ==
    /\ store_pc # "raised"
    /\ store_pc = "saved_again" => store_file = store_first

\* Some candidate of the current request passes test_new.
AdmissibleExists ==
    \E c \in DrawnPostcards(orientation, door) :
        test_new(c, existing_postcards, door)

\* The invocation has left the loop and appended its candidate.
Accepted ==
    \/ pc \in {"write_busy", "print", "exit"}
    \/ pc = "raised" /\ error = "ZeroDivisionError"

\* C8: with fair draws, a loop for which an admissible candidate exists ends
\* with an accepted candidate; the accepted candidate overlaps none of the
\* existing postcards; a rejected candidate is not appended.
C8_LoopAcceptsOnlyAdmissible ==
    /\ (pc = "loop" /\ AdmissibleExists) ~> (pc = "write_busy")
    /\ [](Accepted =>
            /\ existing_postcards = Append(PlacedAtStart, postcard)
            /\ \A i \in 1..Len(PlacedAtStart) :
                  ~overlap(postcard, PlacedAtStart[i]))
    /\ [][(pc = "loop" /\ ~test_new(postcard, existing_postcards, door))
            => existing_postcards' = existing_postcards]_vars

\* The scenario of the specification: a Landscape postcard at the origin is
\* placed, candidates were rejected, and one was accepted.
C8_Witness ==
    /\ pc = "write_busy"
    /\ rejected
    /\ PlacedAtStart = <<Postcard(0, 0, LANDSCAPE)>>
    /\ Len(existing_postcards) = 2

\* The requested size does not fit the door.
Misfit ==
    /\ orientation # None
    /\ \/ PostcardSize(orientation).width > door.width
       \/ PostcardSize(orientation).height > door.height

\* C9: when the requested width or height exceeds the door's, the first draw
\* ends the invocation with an error: no candidate exists, the loop is not
\* entered and BUSY_FILE is left as it was.
C9_MisfitFailsOnFirstDraw ==
    /\ [](Misfit =>
            /\ pc \in {"parse_busy", "new_postcard", "raised"}
            /\ postcard = None
            /\ ~rejected
            /\ file = file_at_start)
    /\ [][(Misfit /\ pc = "new_postcard")
            => (pc' = "raised" /\ error' = "ValueError")]_vars

\* A request that does not fit has failed, after an earlier request that fit
\* was placed and written.
C9_Witness ==
    /\ Misfit
    /\ pc = "raised"
    /\ error = "ValueError"
    /\ Len(Placed) = 1

\* C10: after a completed run, BUSY_FILE holds the records it held at the
\* start, in their order, followed by the accepted placement; after a dry
\* run it is unchanged.
C10_PersistedRecordsFrame ==
    pc = "exit" =>
        IF dryrun THEN file = file_at_start
        ELSE parse_busy(file) = Returned(Append(PlacedAtStart, postcard))

\* A run that was not dry has completed on a file that held a record.
C10_Witness ==
    /\ pc = "exit"
    /\ ~dryrun
    /\ Len(PlacedAtStart) = 1
    /\ Len(Placed) = 2

=============================================================================
